---------------------------- MODULE Spec2Model ----------------------------
(***************************************************************************)
(* A model of the pisequencer front end: the AudioClock step timer, the    *)
(* useSequencer hook that owns grid and playback state, and the            *)
(* useSequencerWebSocket hook that talks to the GPIO back end.             *)
(*                                                                         *)
(* Time is counted in ticks of 1/TicksPerSecond seconds.  The clock's      *)
(* floating point seconds are modelled as exact rationals <<num, den>>.    *)
(***************************************************************************)
EXTENDS Integers, Sequences, FiniteSets, TLC

VARIABLES
    now,        \* AudioContext.currentTime, in ticks
    clock,      \* the fields of the AudioClock instance
    starts,     \* start() calls suspended at `await this.initialize()`
    state,      \* useSequencer's React state {grid, isPlaying, currentStep, bpm}
    ws,         \* useSequencerWebSocket: readyState, reconnect bookkeeping, status, lastError
    serverUp,   \* environment: the back end accepts connections
    obs,        \* what the last handler did: step fired, commands dispatched, messages sent, result
    afterStop,  \* history: AudioClock.stop() has returned and start() was not called since
    watch       \* scenario bookkeeping: ticks since the last check, step events since start

vars == <<now, clock, starts, state, ws, serverUp, obs, afterStop, watch>>

-----------------------------------------------------------------------------
(* Bounds of the model *)

TicksPerSecond == 16
MaxTime == 3
MaxClockTime == 5
MaxOrphans == 1
MaxStarts == 2
MaxCycleTicks == 36
MaxJitterTicks == 12

(* Inputs *)
BpmInputs == {60, 120, 240}
AppBpmInputs == {240}
StartInputs == { <<120, 0>>, <<240, 15>> }
PadChannels == {0, 2}
PadSteps == {0}
KeyChannels == {0, 7}

(* Program constants *)
totalSteps == 16
numChannels == 8
minBpm == 80
maxBpm == 200
defaultBpm == 120
triggerDuration == 50
reconnectAttempts == 1
reconnectInterval == 3000

-----------------------------------------------------------------------------
(* Exact rational arithmetic standing in for the clock's doubles *)

Abs(x) == IF x < 0 THEN -x ELSE x

RECURSIVE GCD(_, _)
GCD(a, b) == IF b = 0 THEN a ELSE GCD(b, a % b)

\* the rational n/d (d > 0) in lowest terms
Rat(n, d) ==
    LET g == GCD(Abs(n), d)
    IN  IF n = 0 THEN <<0, 1>> ELSE <<n \div g, d \div g>>

RatAdd(p, q) == Rat(p[1] * q[2] + q[1] * p[2], p[2] * q[2])
RatSub(p, q) == Rat(p[1] * q[2] - q[1] * p[2], p[2] * q[2])
RatMul(p, q) == Rat(p[1] * q[1], p[2] * q[2])
RatDiv(p, q) ==
    IF q[1] > 0 THEN Rat(p[1] * q[2], p[2] * q[1])
                ELSE Rat(-(p[1] * q[2]), p[2] * (-q[1]))
RatLeq(p, q) == p[1] * q[2] <= q[1] * p[2]
RatLt(p, q) == p[1] * q[2] < q[1] * p[2]

\* audioContext.currentTime in seconds
currentTime == Rat(now, TicksPerSecond)

-----------------------------------------------------------------------------
(* AudioClock *)

Min(a, b) == IF a < b THEN a ELSE b
Max(a, b) == IF a > b THEN a ELSE b

\* a clamp without the lower limit
clampBpm_low(b) == Min(maxBpm, b)

clampBpm(b) == Max(minBpm, Min(maxBpm, b))

\* a step taken for an eighth note
calculateStepDuration_eighth(b) == Rat(60, b * 2)

calculateStepDuration(b) == Rat(60, b * 4)


\* requestAnimationFrame(this.checkTiming), its id stored in animationFrameId.
\* animationFrameId is "null", "live" (the request it names is still pending) or
\* "stale" (that request has already run); a pending request whose id was
\* overwritten is counted in orphanChecks.
requestAnimationFrame(c) ==
    [c EXCEPT !.animationFrameId = "live",
              !.orphanChecks = IF c.animationFrameId = "live" THEN @ + 1 ELSE @]

\* a checkTiming that drops the steps missed during a stall: the deadline is
\* realigned one interval after the current time
checkTiming_skip(c) ==
    IF ~c.isRunning \/ c.audioContext = "null"
    THEN [clock |-> c, fired |-> <<>>]
    ELSE LET due == RatLeq(c.nextStepTime, currentTime)
             c1  == IF due
                    THEN [c EXCEPT !.currentStep = (@ + 1) % totalSteps,
                                   !.nextStepTime = RatAdd(currentTime, c.stepDuration)]
                    ELSE c
         IN  [clock |-> requestAnimationFrame(c1),
              fired |-> IF due THEN <<c.currentStep>> ELSE <<>>]

\* a checkTiming that counts the steps on without wrapping after the last
checkTiming_nowrap(c) ==
    IF ~c.isRunning \/ c.audioContext = "null"
    THEN [clock |-> c, fired |-> <<>>]
    ELSE LET due == RatLeq(c.nextStepTime, currentTime)
             c1  == IF due
                    THEN [c EXCEPT !.currentStep = @ + 1,
                                   !.nextStepTime = RatAdd(@, c.stepDuration)]
                    ELSE c
         IN  [clock |-> requestAnimationFrame(c1),
              fired |-> IF due THEN <<c.currentStep>> ELSE <<>>]

\* a checkTiming that advances before it fires: the subscriber gets the next step
checkTiming_post(c) ==
    IF ~c.isRunning \/ c.audioContext = "null"
    THEN [clock |-> c, fired |-> <<>>]
    ELSE LET due == RatLeq(c.nextStepTime, currentTime)
             c1  == IF due
                    THEN [c EXCEPT !.currentStep = (@ + 1) % totalSteps,
                                   !.nextStepTime = RatAdd(@, c.stepDuration)]
                    ELSE c
         IN  [clock |-> requestAnimationFrame(c1),
              fired |-> IF due THEN <<c1.currentStep>> ELSE <<>>]

\* the body of checkTiming: the clock after the check and the step handed to the
\* subscriber (as a sequence: none or one)
checkTiming(c) ==
    IF ~c.isRunning \/ c.audioContext = "null"
    THEN [clock |-> c, fired |-> <<>>]
    ELSE LET due == RatLeq(c.nextStepTime, currentTime)
             c1  == IF due
                    THEN [c EXCEPT !.currentStep = (@ + 1) % totalSteps,
                                   !.nextStepTime = RatAdd(@, c.stepDuration)]
                    ELSE c
         IN  [clock |-> requestAnimationFrame(c1),
              fired |-> IF due THEN <<c.currentStep>> ELSE <<>>]

\* a start that arms the first deadline at the current time
startBody_now(c, b, s) ==
    LET d  == calculateStepDuration(clampBpm(b))
        c1 == [c EXCEPT !.audioContext = "running",
                        !.bpm = clampBpm(b),
                        !.currentStep = s,
                        !.isRunning = TRUE,
                        !.stepDuration = d,
                        !.startTime = currentTime,
                        !.nextStepTime = currentTime]
    IN  checkTiming(c1).clock

\* start() from line 101 on, once initialize() has succeeded
startBody(c, b, s) ==
    LET d  == calculateStepDuration(clampBpm(b))
        c1 == [c EXCEPT !.audioContext = "running",
                        !.bpm = clampBpm(b),
                        !.currentStep = s,
                        !.isRunning = TRUE,
                        !.stepDuration = d,
                        !.startTime = currentTime,
                        !.nextStepTime = RatAdd(currentTime, d)]
    IN  checkTiming(c1).clock

\* a start without the test of isRunning: a running clock is started again
startCall_restart(c, b, s, created) ==
    IF c.audioContext = "running"
         THEN [clock |-> startBody(c, b, s), result |-> "true"]
    ELSE IF c.audioContext = "suspended"
         THEN [clock |-> c, result |-> "pending"]
    ELSE IF created = "running"
         THEN [clock |-> startBody(c, b, s), result |-> "true"]
    ELSE IF created = "suspended"
         THEN [clock |-> [c EXCEPT !.audioContext = "suspended"], result |-> "pending"]
    ELSE [clock |-> c, result |-> "false"]

\* start() up to the point where it returns or suspends.  created is what
\* `new AudioContext()` yields when there is none yet: "running", "suspended"
\* (no user gesture yet) or "throws".  result is "true", "false" or "pending"
\* (suspended at the await of audioContext.resume()).
startCall(c, b, s, created) ==
    IF c.isRunning THEN [clock |-> c, result |-> "true"]
    ELSE IF c.audioContext = "running"
         THEN [clock |-> startBody(c, b, s), result |-> "true"]
    ELSE IF c.audioContext = "suspended"
         THEN [clock |-> c, result |-> "pending"]
    ELSE IF created = "running"
         THEN [clock |-> startBody(c, b, s), result |-> "true"]
    ELSE IF created = "suspended"
         THEN [clock |-> [c EXCEPT !.audioContext = "suspended"], result |-> "pending"]
    ELSE [clock |-> c, result |-> "false"]

\* a resumed start that goes on although initialize() has reported failure
startResume_force(c, b, s, ok) ==
    [clock |-> startBody(c, b, s), result |-> IF ok THEN "true" ELSE "false"]

\* start() resumed after the await: ok says whether the context is running now
startResume(c, b, s, ok) ==
    IF ok THEN [clock |-> startBody(c, b, s), result |-> "true"]
          ELSE [clock |-> c, result |-> "false"]

\* a stop that leaves currentStep where the run had got to
clockStop_keep(c) ==
    [c EXCEPT !.isRunning = FALSE, !.animationFrameId = "null"]

clockStop(c) ==
    [c EXCEPT !.isRunning = FALSE, !.animationFrameId = "null", !.currentStep = 0]

\* a destroy that closes the audio context without stopping the clock
clockDestroy_nostop(c) == [c EXCEPT !.audioContext = "null"]

\* destroy(): stop(), then the audio context is closed and dropped
clockDestroy(c) == [clockStop(c) EXCEPT !.audioContext = "null"]

\* a setBpm that restarts the interval at the new tempo instead of rescaling what
\* remains of it
clockSetBpm_jump(c, b) ==
    LET clampedBpm == clampBpm(b)
        c1 == [c EXCEPT !.bpm = clampedBpm]
    IN  IF clampedBpm = c.bpm THEN c
        ELSE IF c.isRunning /\ c.audioContext # "null"
        THEN LET newStepDuration == calculateStepDuration(clampedBpm)
             IN  [c1 EXCEPT !.stepDuration = newStepDuration,
                            !.nextStepTime = RatAdd(currentTime, newStepDuration)]
        ELSE c1

\* a setBpm that stores the tempo and leaves the timing of the running clock alone
clockSetBpm_stale(c, b) == [c EXCEPT !.bpm = clampBpm(b)]

clockSetBpm(c, b) ==
    LET clampedBpm == clampBpm(b)
        c1 == [c EXCEPT !.bpm = clampedBpm]
    IN  IF clampedBpm = c.bpm THEN c
        ELSE IF c.isRunning /\ c.audioContext # "null"
        THEN LET oldStepDuration   == c.stepDuration
                 newStepDuration   == calculateStepDuration(clampedBpm)
                 timeUntilNextStep == RatSub(c.nextStepTime, currentTime)
                 adjustmentFactor  == RatDiv(newStepDuration, oldStepDuration)
             IN  [c1 EXCEPT !.stepDuration = newStepDuration,
                            !.nextStepTime =
                                RatAdd(currentTime, RatMul(timeUntilNextStep, adjustmentFactor))]
        ELSE c1

-----------------------------------------------------------------------------
(* useSequencerWebSocket: sending *)

isConnected(w) == w.readyState = "OPEN"

\* a sendMessage without the isConnected test
sendMessage_noguard(w, message, throws) ==
    IF throws
    THEN [ws |-> [w EXCEPT !.lastError = "Failed to send message"],
          ret |-> "false", sent |-> <<>>]
    ELSE [ws |-> w, ret |-> "true", sent |-> <<message>>]

\* throws: sendJsonMessage raises
sendMessage(w, message, throws) ==
    IF ~isConnected(w)
    THEN [ws |-> [w EXCEPT !.lastError = "WebSocket not connected"],
          ret |-> "false", sent |-> <<>>]
    ELSE IF throws
    THEN [ws |-> [w EXCEPT !.lastError = "Failed to send message"],
          ret |-> "false", sent |-> <<>>]
    ELSE [ws |-> w, ret |-> "true", sent |-> <<message>>]

triggerGPIO(w, channels, duration, throws) ==
    sendMessage(w, [type |-> "gpio_trigger",
                    data |-> [channels |-> channels, duration |-> duration]], throws)

triggerImmediate(w, channel, duration, throws) ==
    sendMessage(w, [type |-> "immediate_trigger",
                    data |-> [channel |-> channel, duration |-> duration]], throws)

-----------------------------------------------------------------------------
(* useSequencer and App: grid, step handling *)

\* The grid is the 8 rows of the boolean matrix, first row first; a row is written
\* as the set of its pad indexes (0..15) that are true.
initializeGrid == [i \in 1..numChannels |-> {}]

pad(grid, channelIndex, stepIndex) == stepIndex \in grid[channelIndex + 1]

\* a getActiveChannels without the filter
getActiveChannels_unfiltered(grid, stepIndex) ==
    [i \in 1..numChannels |-> IF pad(grid, i - 1, stepIndex) THEN i - 1 ELSE -1]

getActiveChannels(grid, stepIndex) ==
    LET mapped == [i \in 1..numChannels |-> IF pad(grid, i - 1, stepIndex) THEN i - 1 ELSE -1]
    IN  SelectSeq(mapped, LAMBDA channelIndex : channelIndex # -1)

\* a togglePad that switches the pad on instead of flipping it
togglePadGrid_set(grid, channelIndex, stepIndex) ==
    [i \in 1..numChannels |->
        IF i - 1 = channelIndex /\ stepIndex \in 0..(totalSteps - 1)
        THEN grid[i] \cup {stepIndex}
        ELSE grid[i]]

\* a togglePad that flips the pad of the step in every row
togglePadGrid_column(grid, channelIndex, stepIndex) ==
    [i \in 1..numChannels |->
        IF stepIndex \in 0..(totalSteps - 1)
        THEN IF stepIndex \in grid[i] THEN grid[i] \ {stepIndex}
                                      ELSE grid[i] \cup {stepIndex}
        ELSE grid[i]]

\* prev.grid.map(...): only a row and a pad that exist are visited
togglePadGrid(grid, channelIndex, stepIndex) ==
    [i \in 1..numChannels |->
        IF i - 1 = channelIndex /\ stepIndex \in 0..(totalSteps - 1)
        THEN IF stepIndex \in grid[i] THEN grid[i] \ {stepIndex}
                                      ELSE grid[i] \cup {stepIndex}
        ELSE grid[i]]

\* clearGrid: a new grid with every pad off
clearGrid(grid) == initializeGrid

\* clearChannel: the row of the channel, if there is one, is replaced by a row of
\* 16 pads that are off
clearChannel(grid, channelIndex) ==
    [i \in 1..numChannels |-> IF i - 1 = channelIndex THEN {} ELSE grid[i]]

\* a getStepDuration that returns the length of a beat
getStepDuration_beat(st) == Rat(60000, st.bpm)

\* useSequencer.getStepDuration: milliseconds
getStepDuration(st) == RatDiv(Rat(60000, st.bpm), <<4, 1>>)

\* a handleStep that triggers every active channel with a message of its own
handleStep_each(grid, w, step, throws) ==
    LET activeChannels == getActiveChannels(grid, step)
        r == triggerGPIO(w, activeChannels, triggerDuration, throws)
    IN  [ws |-> r.ws,
         ret |-> IF Len(activeChannels) > 0 THEN r.ret ELSE "none",
         sent |-> IF r.ret = "true"
                  THEN [i \in 1..Len(activeChannels) |->
                          [type |-> "gpio_trigger",
                           data |-> [channels |-> <<activeChannels[i]>>,
                                     duration |-> triggerDuration]]]
                  ELSE <<>>,
         cmds |-> [i \in 1..Len(activeChannels) |->
                     [kind |-> "batch", channels |-> <<activeChannels[i]>>,
                      duration |-> triggerDuration]]]

\* a handleStep without the test for an empty channel list
handleStep_always(grid, w, step, throws) ==
    LET activeChannels == getActiveChannels(grid, step)
        r == triggerGPIO(w, activeChannels, triggerDuration, throws)
    IN  [ws |-> r.ws, ret |-> r.ret, sent |-> r.sent,
         cmds |-> <<[kind |-> "batch", channels |-> activeChannels,
                     duration |-> triggerDuration]>>]

\* App.handleStep: what it dispatches to the connection
handleStep(grid, w, step, throws) ==
    LET activeChannels == getActiveChannels(grid, step)
    IN  IF Len(activeChannels) > 0
        THEN LET r == triggerGPIO(w, activeChannels, triggerDuration, throws)
             IN  [ws |-> r.ws, ret |-> r.ret, sent |-> r.sent,
                  cmds |-> <<[kind |-> "batch", channels |-> activeChannels,
                              duration |-> triggerDuration]>>]
        ELSE [ws |-> w, ret |-> "none", sent |-> <<>>, cmds |-> <<>>]

\* a subscriber that switches the pads of the step off once it has played them
onStepCallback_consume(st, w, step, throws) ==
    LET h == handleStep(st.grid, w, step, throws)
    IN  [state |-> [st EXCEPT !.currentStep = step,
                              !.grid = [i \in 1..numChannels |-> st.grid[i] \ {step}]],
         ws |-> h.ws, ret |-> h.ret, sent |-> h.sent, cmds |-> h.cmds]

\* the subscriber useSequencer registers with clock.onStep
onStepCallback(st, w, step, throws) ==
    LET h == handleStep(st.grid, w, step, throws)
    IN  [state |-> [st EXCEPT !.currentStep = step],
         ws |-> h.ws, ret |-> h.ret, sent |-> h.sent, cmds |-> h.cmds]

\* what the last operation or event did, as its caller and the collaborators see it:
\* call: the operation of the sequencer that was invoked, with its arguments;
\* fired: the step handed to the clock's subscriber; cmds: the trigger commands
\* issued; sent: the messages handed to sendJsonMessage; ret: the value returned
\* ("none": undefined); log: console.error messages; errors: the argument lists
\* the onError callback was invoked with; status: the connection callbacks
\* (onConnect, onDisconnect) that were invoked.
NoCall == [op |-> "none", args |-> <<>>]

Quiet == [call |-> NoCall, fired |-> <<>>, cmds |-> <<>>, sent |-> <<>>, ret |-> "none",
          log |-> <<>>, errors |-> <<>>, status |-> <<>>]

\* the onError calls of a send: sendMessage reports a failing sendJsonMessage
sendErrors(w, throws) ==
    IF isConnected(w) /\ throws THEN << <<"Failed to send message">> >> ELSE <<>>

\* the onError calls of handleMessage
handleMessageErrors(message) ==
    IF message.type # "error" THEN <<>>
    ELSE IF message.valid THEN << <<message.data.error>> >>
    ELSE << <<"Error handling message">> >>

-----------------------------------------------------------------------------
(* useSequencerWebSocket: connection events, as react-use-websocket delivers    *)
(* them under the options the hook passes (shouldReconnect: () => true,        *)
(* reconnectAttempts, reconnectInterval)                                       *)

\* the interval the reconnect timer is armed with for the given attempt count
nextReconnectInterval(reconnectCount) == reconnectInterval

\* whether a close event schedules another attempt
shouldSchedule(reconnectCount) == reconnectCount < reconnectAttempts

onOpen(w) ==
    [w EXCEPT !.readyState = "OPEN", !.reconnectCount = 0, !.lastError = "null"]

onError(w) == [w EXCEPT !.lastError = "WebSocket connection error"]

\* an onClose that keeps the status of the actuator
onClose_keep(w) ==
    [w EXCEPT !.readyState = "CLOSED",
              !.reconnectDelay = IF shouldSchedule(w.reconnectCount)
                                 THEN nextReconnectInterval(w.reconnectCount) ELSE 0]

onClose(w) ==
    [w EXCEPT !.readyState = "CLOSED",
              !.connectionStatus = "null",
              !.reconnectDelay = IF shouldSchedule(w.reconnectCount)
                                 THEN nextReconnectInterval(w.reconnectCount) ELSE 0]

\* a reconnect that reports the session open before the socket has opened
reconnect_open(w) ==
    [w EXCEPT !.reconnectCount = @ + 1, !.readyState = "OPEN", !.reconnectDelay = 0]

\* the reconnect timer's callback
reconnect(w) ==
    [w EXCEPT !.reconnectCount = @ + 1, !.readyState = "CONNECTING", !.reconnectDelay = 0]

\* the messages the back end sends; the optional channel of an error message is
\* written as a sequence of none or one.  valid is false for a malformed message:
\* an error message that has no data object.
Messages ==
    { [type |-> "connection_status", valid |-> TRUE,
       data |-> [connected |-> TRUE, gpio_available |-> g]] : g \in BOOLEAN }
    \cup { [type |-> "error", valid |-> TRUE,
            data |-> [error |-> "GPIO error", channel |-> <<3>>]],
           [type |-> "error", valid |-> TRUE,
            data |-> [error |-> "GPIO unavailable", channel |-> <<>>]],
           [type |-> "error", valid |-> FALSE,
            data |-> [error |-> "none", channel |-> <<>>]],
           [type |-> "pong", valid |-> TRUE,
            data |-> [error |-> "none", channel |-> <<>>]],
           [type |-> "telemetry", valid |-> TRUE,
            data |-> [error |-> "none", channel |-> <<>>]] }

\* a handleMessage that treats a type it does not know as a failure
handleMessage_strict(w, message) ==
    IF message.type = "connection_status"
    THEN [w EXCEPT !.connectionStatus =
                      IF message.data.gpio_available THEN "gpio" ELSE "mock"]
    ELSE IF message.type = "error" /\ message.valid
    THEN [w EXCEPT !.lastError = message.data.error]
    ELSE [w EXCEPT !.lastError = "Error handling message"]

\* reading error.error of a message without data raises, and the catch reports it
handleMessage(w, message) ==
    IF message.type = "connection_status"
    THEN [w EXCEPT !.connectionStatus =
                      IF message.data.gpio_available THEN "gpio" ELSE "mock"]
    ELSE IF message.type = "error"
    THEN [w EXCEPT !.lastError = IF message.valid THEN message.data.error
                                 ELSE "Error handling message"]
    ELSE w

-----------------------------------------------------------------------------
(* Initial state: hooks mounted, no AudioContext yet, socket connecting *)

Zero == <<0, 1>>

Init ==
    /\ now = 0
    /\ clock = [audioContext |-> "null", isRunning |-> FALSE, bpm |-> defaultBpm,
                currentStep |-> 0, animationFrameId |-> "null", orphanChecks |-> 0,
                startTime |-> Zero, nextStepTime |-> Zero, stepDuration |-> Zero]
    /\ starts = <<>>
    /\ state = [grid |-> initializeGrid, isPlaying |-> FALSE, currentStep |-> 0,
                bpm |-> defaultBpm]
    /\ ws = [readyState |-> "CONNECTING", reconnectCount |-> 0, reconnectDelay |-> 0,
             connectionStatus |-> "null", lastError |-> "null"]
    /\ serverUp \in BOOLEAN
    /\ obs = Quiet
    /\ afterStop = FALSE
    /\ watch = [sinceCheck |-> 0, stepEvents |-> 0]

-----------------------------------------------------------------------------
(* Time and the animation-frame callback *)

Tick(limit) ==
    /\ now < limit
    /\ now' = now + 1
    /\ obs' = Quiet
    /\ UNCHANGED <<clock, starts, state, ws, serverUp, afterStop>>

\* a check whose loop ends when the subscriber's send is rejected
CheckTiming_halt(req) ==
    /\ \/ req = "tracked" /\ clock.animationFrameId = "live"
       \/ req = "orphan" /\ clock.orphanChecks > 0
    /\ \E throws \in BOOLEAN :
         LET c0 == IF req = "tracked"
                   THEN [clock EXCEPT !.animationFrameId = "stale"]
                   ELSE [clock EXCEPT !.orphanChecks = @ - 1]
             r  == checkTiming(c0)
             h  == onStepCallback(state, ws, r.fired[1], throws)
         IN  /\ r.clock.orphanChecks <= MaxOrphans
             /\ IF r.fired # <<>>
                THEN /\ clock' = IF h.ret = "false"
                                 THEN [r.clock EXCEPT !.animationFrameId = "stale"]
                                 ELSE r.clock
                     /\ state' = h.state
                     /\ ws' = h.ws
                     /\ obs' = [Quiet EXCEPT !.fired = r.fired, !.cmds = h.cmds,
                                             !.sent = h.sent, !.ret = h.ret,
                                             !.errors = IF h.cmds # <<>>
                                                        THEN sendErrors(ws, throws)
                                                        ELSE <<>>]
                ELSE /\ clock' = r.clock
                     /\ obs' = Quiet
                     /\ UNCHANGED <<state, ws>>
    /\ UNCHANGED <<now, starts, serverUp, afterStop>>

\* the browser runs one pending animation-frame request: the one animationFrameId
\* names ("tracked") or one whose id was overwritten ("orphan")
CheckTiming(req) ==
    /\ \/ req = "tracked" /\ clock.animationFrameId = "live"
       \/ req = "orphan" /\ clock.orphanChecks > 0
    /\ \E throws \in BOOLEAN :
         LET c0 == IF req = "tracked"
                   THEN [clock EXCEPT !.animationFrameId = "stale"]
                   ELSE [clock EXCEPT !.orphanChecks = @ - 1]
             r  == checkTiming(c0)
             h  == onStepCallback(state, ws, r.fired[1], throws)
         IN  /\ r.clock.orphanChecks <= MaxOrphans
             /\ clock' = r.clock
             /\ IF r.fired # <<>>
                THEN /\ state' = h.state
                     /\ ws' = h.ws
                     /\ obs' = [Quiet EXCEPT !.fired = r.fired, !.cmds = h.cmds,
                                             !.sent = h.sent, !.ret = h.ret,
                                             !.errors = IF h.cmds # <<>>
                                                        THEN sendErrors(ws, throws)
                                                        ELSE <<>>]
                ELSE /\ obs' = Quiet
                     /\ UNCHANGED <<state, ws>>
    /\ UNCHANGED <<now, starts, serverUp, afterStop>>

-----------------------------------------------------------------------------
(* AudioClock's public operations, called directly *)

Created == {"running", "suspended", "throws"}

Start(b, s) ==
    \E created \in Created :
      LET r == startCall(clock, b, s, created)
      IN  /\ r.result = "pending" => Len(starts) < MaxStarts
          /\ r.clock.orphanChecks <= MaxOrphans
          /\ clock' = r.clock
          /\ starts' = IF r.result = "pending"
                       THEN Append(starts, [bpm |-> b, startStep |-> s, play |-> FALSE])
                       ELSE starts
          /\ afterStop' = FALSE
          /\ obs' = [Quiet EXCEPT !.ret = r.result]
          /\ UNCHANGED <<now, state, ws, serverUp>>

\* audioContext.resume() settles: every start() suspended on it (and the play()
\* awaiting that start) runs to its end, in the order of the calls, before any other
\* event is handled.  ok: the context is running now, else initialize() reports failure.
RECURSIVE resumeAll(_, _, _, _)
resumeAll(c, st, queue, ok) ==
    IF queue = <<>> THEN [clock |-> c, state |-> st]
    ELSE LET p   == Head(queue)
             r   == startResume(c, p.bpm, p.startStep, ok)
             st1 == IF p.play /\ r.result = "true"
                    THEN [st EXCEPT !.isPlaying = TRUE, !.currentStep = 0]
                    ELSE st
         IN  resumeAll(r.clock, st1, Tail(queue), ok)

StartResume(ok) ==
    /\ starts # <<>>
    /\ LET r == resumeAll(clock, state, starts, ok)
       IN  /\ r.clock.orphanChecks <= MaxOrphans
           /\ clock' = r.clock
           /\ state' = r.state
           /\ obs' = [Quiet EXCEPT !.ret = IF ok THEN "true" ELSE "false",
                                   !.log = IF ~ok /\ \E i \in 1..Len(starts) : starts[i].play
                                           THEN <<"Failed to start audio clock">>
                                           ELSE <<>>]
    /\ starts' = <<>>
    /\ UNCHANGED <<now, ws, serverUp, afterStop>>

ClockStop ==
    /\ clock' = clockStop(clock)
    /\ afterStop' = TRUE
    /\ obs' = Quiet
    /\ UNCHANGED <<now, starts, state, ws, serverUp>>

\* destroy().  A start() suspended on the context that is closed here never starts
\* the clock: resume() of a closed context rejects or stays pending, and after a
\* rejection or a null audioContext at line 32 initialize() returns false from
\* its catch, so these calls leave the queue.
ClockDestroy ==
    /\ clock' = clockDestroy(clock)
    /\ starts' = <<>>
    /\ afterStop' = TRUE
    /\ obs' = Quiet
    /\ UNCHANGED <<now, state, ws, serverUp>>

ClockSetBpm(b) ==
    /\ clock' = clockSetBpm(clock, b)
    /\ obs' = Quiet
    /\ UNCHANGED <<now, starts, state, ws, serverUp, afterStop>>

-----------------------------------------------------------------------------
(* useSequencer's operations *)

\* a play without the test of isPlaying
Play_noguard ==
    \E created \in Created :
      LET r == startCall(clock, state.bpm, 0, created)
      IN  /\ r.result = "pending" => Len(starts) < MaxStarts
          /\ r.clock.orphanChecks <= MaxOrphans
          /\ clock' = r.clock
          /\ starts' = IF r.result = "pending"
                       THEN Append(starts, [bpm |-> state.bpm, startStep |-> 0,
                                            play |-> TRUE])
                       ELSE starts
          /\ state' = IF r.result = "true"
                      THEN [state EXCEPT !.isPlaying = TRUE, !.currentStep = 0]
                      ELSE state
          /\ afterStop' = FALSE
          /\ obs' = [Quiet EXCEPT !.call = [op |-> "play", args |-> <<>>],
                                  !.log = IF r.result = "false"
                                          THEN <<"Failed to start audio clock">>
                                          ELSE <<>>]
          /\ UNCHANGED <<now, ws, serverUp>>

Play ==
    IF state.isPlaying
    THEN /\ obs' = [Quiet EXCEPT !.call = [op |-> "play", args |-> <<>>]]
         /\ UNCHANGED <<now, clock, starts, state, ws, serverUp, afterStop>>
    ELSE \E created \in Created :
           LET r == startCall(clock, state.bpm, 0, created)
           IN  /\ r.result = "pending" => Len(starts) < MaxStarts
               /\ r.clock.orphanChecks <= MaxOrphans
               /\ clock' = r.clock
               /\ starts' = IF r.result = "pending"
                            THEN Append(starts, [bpm |-> state.bpm, startStep |-> 0,
                                                 play |-> TRUE])
                            ELSE starts
               /\ state' = IF r.result = "true"
                           THEN [state EXCEPT !.isPlaying = TRUE, !.currentStep = 0]
                           ELSE state
               /\ afterStop' = FALSE
               /\ obs' = [Quiet EXCEPT !.call = [op |-> "play", args |-> <<>>],
                                       !.log = IF r.result = "false"
                                               THEN <<"Failed to start audio clock">>
                                               ELSE <<>>]
               /\ UNCHANGED <<now, ws, serverUp>>

\* a stop that resets SequenceState and leaves the clock running
Stop_stateonly ==
    IF ~state.isPlaying
    THEN /\ obs' = [Quiet EXCEPT !.call = [op |-> "stop", args |-> <<>>]]
         /\ UNCHANGED <<now, clock, starts, state, ws, serverUp, afterStop>>
    ELSE /\ state' = [state EXCEPT !.isPlaying = FALSE, !.currentStep = 0]
         /\ afterStop' = TRUE
         /\ obs' = [Quiet EXCEPT !.call = [op |-> "stop", args |-> <<>>]]
         /\ UNCHANGED <<now, clock, starts, ws, serverUp>>

Stop ==
    IF ~state.isPlaying
    THEN /\ obs' = [Quiet EXCEPT !.call = [op |-> "stop", args |-> <<>>]]
         /\ UNCHANGED <<now, clock, starts, state, ws, serverUp, afterStop>>
    ELSE /\ clock' = clockStop(clock)
         /\ state' = [state EXCEPT !.isPlaying = FALSE, !.currentStep = 0]
         /\ afterStop' = TRUE
         /\ obs' = [Quiet EXCEPT !.call = [op |-> "stop", args |-> <<>>]]
         /\ UNCHANGED <<now, starts, ws, serverUp>>

SetBpm(b) ==
    /\ state' = [state EXCEPT !.bpm = clampBpm(b)]
    /\ clock' = clockSetBpm(clock, clampBpm(b))
    /\ obs' = [Quiet EXCEPT !.call = [op |-> "setBpm", args |-> <<b>>]]
    /\ UNCHANGED <<now, starts, ws, serverUp, afterStop>>

TogglePad(channelIndex, stepIndex) ==
    /\ state' = [state EXCEPT !.grid = togglePadGrid(@, channelIndex, stepIndex)]
    /\ obs' = [Quiet EXCEPT !.call = [op |-> "togglePad",
                                      args |-> <<channelIndex, stepIndex>>]]
    /\ UNCHANGED <<now, clock, starts, ws, serverUp, afterStop>>

ClearGrid ==
    /\ state' = [state EXCEPT !.grid = clearGrid(@)]
    /\ obs' = [Quiet EXCEPT !.call = [op |-> "clearGrid", args |-> <<>>]]
    /\ UNCHANGED <<now, clock, starts, ws, serverUp, afterStop>>

ClearChannel(channelIndex) ==
    /\ state' = [state EXCEPT !.grid = clearChannel(@, channelIndex)]
    /\ obs' = [Quiet EXCEPT !.call = [op |-> "clearChannel", args |-> <<channelIndex>>]]
    /\ UNCHANGED <<now, clock, starts, ws, serverUp, afterStop>>

-----------------------------------------------------------------------------
(* The connection's operations and events *)

\* an immediate trigger that is dropped while the sequencer is playing
SendImmediateTrigger_idle(channel) ==
    \E throws \in BOOLEAN :
      LET r == IF state.isPlaying
               THEN [ws |-> ws, ret |-> "false", sent |-> <<>>]
               ELSE triggerImmediate(ws, channel, triggerDuration, throws)
      IN  /\ ws' = r.ws
          /\ obs' = [Quiet EXCEPT !.ret = r.ret, !.sent = r.sent,
                                  !.errors = IF state.isPlaying THEN <<>>
                                             ELSE sendErrors(ws, throws),
                                  !.cmds = <<[kind |-> "immediate", channel |-> channel,
                                              duration |-> triggerDuration]>>]
          /\ UNCHANGED <<now, clock, starts, state, serverUp, afterStop>>

\* App: key Q..I or a pad click
SendImmediateTrigger(channel) ==
    \E throws \in BOOLEAN :
      LET r == triggerImmediate(ws, channel, triggerDuration, throws)
      IN  /\ ws' = r.ws
          /\ obs' = [Quiet EXCEPT !.ret = r.ret, !.sent = r.sent,
                                  !.errors = sendErrors(ws, throws),
                                  !.cmds = <<[kind |-> "immediate", channel |-> channel,
                                              duration |-> triggerDuration]>>]
          /\ UNCHANGED <<now, clock, starts, state, serverUp, afterStop>>

BatchInputs == { <<0, 2, 5>>, <<7>> }

SendBatchTrigger(channels) ==
    \E throws \in BOOLEAN :
      LET r == triggerGPIO(ws, channels, triggerDuration, throws)
      IN  /\ ws' = r.ws
          /\ obs' = [Quiet EXCEPT !.ret = r.ret, !.sent = r.sent,
                                  !.errors = sendErrors(ws, throws),
                                  !.cmds = <<[kind |-> "batch", channels |-> channels,
                                              duration |-> triggerDuration]>>]
          /\ UNCHANGED <<now, clock, starts, state, serverUp, afterStop>>

WsOpen ==
    /\ ws.readyState = "CONNECTING"
    /\ serverUp
    /\ ws' = onOpen(ws)
    /\ obs' = [Quiet EXCEPT !.status = <<"onConnect">>]
    /\ UNCHANGED <<now, clock, starts, state, serverUp, afterStop>>

\* a connection attempt fails: error event, then close event
WsConnectFail ==
    /\ ws.readyState = "CONNECTING"
    /\ ~serverUp
    /\ ws' = onClose(onError(ws))
    /\ obs' = [Quiet EXCEPT !.errors = << <<"WebSocket connection error">> >>,
                            !.status = <<"onDisconnect">>]
    /\ UNCHANGED <<now, clock, starts, state, serverUp, afterStop>>

\* the open connection drops
\* a connection whose loss also stops playback
WsDrop_stops ==
    /\ ws.readyState = "OPEN"
    /\ ws' = onClose(ws)
    /\ obs' = [Quiet EXCEPT !.status = <<"onDisconnect">>]
    /\ state' = [state EXCEPT !.isPlaying = FALSE, !.currentStep = 0]
    /\ clock' = clockStop(clock)
    /\ UNCHANGED <<now, starts, serverUp, afterStop>>

WsDrop ==
    /\ ws.readyState = "OPEN"
    /\ ws' = onClose(ws)
    /\ obs' = [Quiet EXCEPT !.status = <<"onDisconnect">>]
    /\ UNCHANGED <<now, clock, starts, state, serverUp, afterStop>>

\* the reconnect timer fires
WsReconnect ==
    /\ ws.reconnectDelay > 0
    /\ ws' = reconnect(ws)
    /\ obs' = Quiet
    /\ UNCHANGED <<now, clock, starts, state, serverUp, afterStop>>

WsReceive(message) ==
    /\ ws.readyState = "OPEN"
    /\ ws' = handleMessage(ws, message)
    /\ obs' = [Quiet EXCEPT !.call = [op |-> "handleMessage", args |-> <<message.type>>],
                            !.errors = handleMessageErrors(message)]
    /\ UNCHANGED <<now, clock, starts, state, serverUp, afterStop>>

ServerFlip ==
    /\ serverUp' = ~serverUp
    /\ obs' = Quiet
    /\ UNCHANGED <<now, clock, starts, state, ws, afterStop>>

-----------------------------------------------------------------------------
(* Specifications *)

\* the application: user input, timer and network events
Next ==
    \/ (Tick(MaxTime) /\ UNCHANGED watch)
    \/ (\E req \in {"tracked", "orphan"} : CheckTiming(req) /\ UNCHANGED watch)
    \/ (Play /\ UNCHANGED watch)
    \/ (\E ok \in BOOLEAN : StartResume(ok) /\ UNCHANGED watch)
    \/ (Stop /\ UNCHANGED watch)
    \/ (\E b \in AppBpmInputs : SetBpm(b) /\ UNCHANGED watch)
    \/ (\E c \in PadChannels, s \in PadSteps : TogglePad(c, s) /\ UNCHANGED watch)
    \/ (\E c \in KeyChannels : SendImmediateTrigger(c) /\ UNCHANGED watch)
    \/ (WsOpen /\ UNCHANGED watch)
    \/ (WsConnectFail /\ UNCHANGED watch)
    \/ (WsDrop /\ UNCHANGED watch)
    \/ (WsReconnect /\ UNCHANGED watch)

Spec == Init /\ [][Next]_vars


\* the clock alone, driven through its public operations
NextClock ==
    \/ (Tick(MaxClockTime) /\ UNCHANGED watch)
    \/ (\E req \in {"tracked", "orphan"} : CheckTiming(req) /\ UNCHANGED watch)
    \/ (\E i \in StartInputs : Start(i[1], i[2]) /\ UNCHANGED watch)
    \/ (\E ok \in BOOLEAN : StartResume(ok) /\ UNCHANGED watch)
    \/ (ClockStop /\ UNCHANGED watch)
    \/ (\E b \in BpmInputs : ClockSetBpm(b) /\ UNCHANGED watch)

SpecClock == Init /\ [][NextClock]_vars

\* the connection alone
NextConn ==
    \/ (\E c \in KeyChannels : SendImmediateTrigger(c) /\ UNCHANGED watch)
    \/ (\E cs \in BatchInputs : SendBatchTrigger(cs) /\ UNCHANGED watch)
    \/ (WsOpen /\ UNCHANGED watch)
    \/ (WsConnectFail /\ UNCHANGED watch)
    \/ (WsDrop /\ UNCHANGED watch)
    \/ (WsReconnect /\ UNCHANGED watch)
    \/ (\E m \in Messages : WsReceive(m) /\ UNCHANGED watch)
    \/ (ServerFlip /\ UNCHANGED watch)

SpecConn == Init /\ [][NextConn]_vars

\* the application with the grid left as it is initialised (all pads off) and no
\* manual trigger: play, stop, time, checks and network events
NextQuiet ==
    \/ (Tick(MaxTime) /\ UNCHANGED watch)
    \/ (\E req \in {"tracked", "orphan"} : CheckTiming(req) /\ UNCHANGED watch)
    \/ (Play /\ UNCHANGED watch)
    \/ (\E ok \in BOOLEAN : StartResume(ok) /\ UNCHANGED watch)
    \/ (Stop /\ UNCHANGED watch)
    \/ (WsOpen /\ UNCHANGED watch)
    \/ (WsConnectFail /\ UNCHANGED watch)
    \/ (WsDrop /\ UNCHANGED watch)
    \/ (WsReconnect /\ UNCHANGED watch)

SpecQuiet == Init /\ [][NextQuiet]_vars

\* the clock started once at tempo 120, step 0, its checks at most one step interval
\* apart.  watch.sinceCheck is the time (in ticks) since the last check of the running
\* clock, watch.stepEvents the number of step events since the start.
Started == clock'.isRunning /\ ~clock.isRunning

NextCycle ==
    \/ /\ Tick(MaxCycleTicks)
       /\ clock.isRunning =>
             RatLeq(Rat(watch.sinceCheck + 1, TicksPerSecond), clock.stepDuration)
       /\ watch' = [watch EXCEPT !.sinceCheck = IF clock.isRunning THEN @ + 1 ELSE 0]
    \/ \E req \in {"tracked", "orphan"} :
         /\ CheckTiming(req)
         /\ watch' = [sinceCheck |-> 0,
                      stepEvents |-> watch.stepEvents + Len(obs'.fired)]
    \/ /\ Start(defaultBpm, 0)
       /\ watch' = IF Started THEN [sinceCheck |-> 0, stepEvents |-> 0] ELSE watch
    \/ \E ok \in BOOLEAN :
         /\ StartResume(ok)
         /\ watch' = IF Started THEN [sinceCheck |-> 0, stepEvents |-> 0] ELSE watch

SpecCycle == Init /\ [][NextCycle]_vars

\* the clock started and stopped at either tempo and step, its checks run at any
\* time, however late; watch.stepEvents counts the step events since the start
NextJitter ==
    \/ (Tick(MaxJitterTicks) /\ UNCHANGED watch)
    \/ \E req \in {"tracked", "orphan"} :
         /\ CheckTiming(req)
         /\ watch' = [watch EXCEPT !.stepEvents = @ + Len(obs'.fired)]
    \/ \E i \in StartInputs :
         /\ Start(i[1], i[2])
         /\ watch' = IF Started THEN [watch EXCEPT !.stepEvents = 0] ELSE watch
    \/ \E ok \in BOOLEAN :
         /\ StartResume(ok)
         /\ watch' = IF Started THEN [watch EXCEPT !.stepEvents = 0] ELSE watch
    \/ (ClockStop /\ UNCHANGED watch)

SpecJitter == Init /\ [][NextJitter]_vars

\* the clock driven directly and through the sequencer's play and stop
NextSteps ==
    \/ (Tick(MaxTime) /\ UNCHANGED watch)
    \/ (\E req \in {"tracked", "orphan"} : CheckTiming(req) /\ UNCHANGED watch)
    \/ (\E i \in StartInputs : Start(i[1], i[2]) /\ UNCHANGED watch)
    \/ (\E ok \in BOOLEAN : StartResume(ok) /\ UNCHANGED watch)
    \/ (ClockStop /\ UNCHANGED watch)
    \/ (\E b \in AppBpmInputs : ClockSetBpm(b) /\ UNCHANGED watch)
    \/ (Play /\ UNCHANGED watch)
    \/ (Stop /\ UNCHANGED watch)

SpecSteps == Init /\ [][NextSteps]_vars

\* the whole life of the clock: start, stop, destroy, tempo changes and checks
NextLife ==
    \/ (Tick(MaxTime) /\ UNCHANGED watch)
    \/ (\E req \in {"tracked", "orphan"} : CheckTiming(req) /\ UNCHANGED watch)
    \/ (\E i \in StartInputs : Start(i[1], i[2]) /\ UNCHANGED watch)
    \/ (\E ok \in BOOLEAN : StartResume(ok) /\ UNCHANGED watch)
    \/ (ClockStop /\ UNCHANGED watch)
    \/ (ClockDestroy /\ UNCHANGED watch)
    \/ (\E b \in AppBpmInputs : ClockSetBpm(b) /\ UNCHANGED watch)

SpecLife == Init /\ [][NextLife]_vars

\* the sequencer alone: playback, tempo and the editing of the grid
NextEdit ==
    \/ (Tick(MaxTime) /\ UNCHANGED watch)
    \/ (\E req \in {"tracked", "orphan"} : CheckTiming(req) /\ UNCHANGED watch)
    \/ (Play /\ UNCHANGED watch)
    \/ (\E ok \in BOOLEAN : StartResume(ok) /\ UNCHANGED watch)
    \/ (Stop /\ UNCHANGED watch)
    \/ (\E b \in AppBpmInputs : SetBpm(b) /\ UNCHANGED watch)
    \/ (\E c \in PadChannels, s \in PadSteps : TogglePad(c, s) /\ UNCHANGED watch)
    \/ (ClearGrid /\ UNCHANGED watch)
    \/ (\E c \in PadChannels : ClearChannel(c) /\ UNCHANGED watch)

SpecEdit == Init /\ [][NextEdit]_vars

\* tempo: the values the tempo control and direct callers of the clock may pass
\* (parseInt yields integers), play and stop, at time 0
TempoInputs == {60, 79, 80, 81, 120, 199, 200, 201, 240}

NextTempo ==
    \/ (Play /\ UNCHANGED watch)
    \/ (\E ok \in BOOLEAN : StartResume(ok) /\ UNCHANGED watch)
    \/ (Stop /\ UNCHANGED watch)
    \/ (\E b \in TempoInputs : SetBpm(b) /\ UNCHANGED watch)
    \/ (\E b \in TempoInputs : Start(b, 0) /\ UNCHANGED watch)
    \/ (ClockStop /\ UNCHANGED watch)

SpecTempo == Init /\ [][NextTempo]_vars

\* the grid and the triggers with indexes in and out of range, and the connection
GridChannels == {-1, 0, 7, 8}
GridSteps == {-1, 0, 8, 15, 16}
TriggerChannels == {-1, 0, 7, 8}
TriggerBatches == { <<0, 7>>, <<2, 8>> }

NextGrid ==
    \/ (\E c \in GridChannels, s \in GridSteps : TogglePad(c, s) /\ UNCHANGED watch)
    \/ (\E c \in TriggerChannels : SendImmediateTrigger(c) /\ UNCHANGED watch)
    \/ (\E cs \in TriggerBatches : SendBatchTrigger(cs) /\ UNCHANGED watch)
    \/ (WsOpen /\ UNCHANGED watch)
    \/ (WsConnectFail /\ UNCHANGED watch)
    \/ (WsDrop /\ UNCHANGED watch)
    \/ (WsReconnect /\ UNCHANGED watch)

SpecGrid == Init /\ [][NextGrid]_vars

\* playback on the untouched grid with the messages of the back end coming in
NextInbound ==
    \/ (Tick(MaxTime) /\ UNCHANGED watch)
    \/ (\E req \in {"tracked", "orphan"} : CheckTiming(req) /\ UNCHANGED watch)
    \/ (Play /\ UNCHANGED watch)
    \/ (\E ok \in BOOLEAN : StartResume(ok) /\ UNCHANGED watch)
    \/ (Stop /\ UNCHANGED watch)
    \/ (WsOpen /\ UNCHANGED watch)
    \/ (WsConnectFail /\ UNCHANGED watch)
    \/ (WsDrop /\ UNCHANGED watch)
    \/ (WsReconnect /\ UNCHANGED watch)
    \/ (\E m \in Messages : WsReceive(m) /\ UNCHANGED watch)

SpecInbound == Init /\ [][NextInbound]_vars

\* playback with one pad toggled, on a connection that fails, drops and delivers
\* error and malformed messages
NextFaults ==
    \/ NextInbound
    \/ (\E c \in PadChannels, s \in PadSteps : TogglePad(c, s) /\ UNCHANGED watch)

SpecFaults == Init /\ [][NextFaults]_vars

-----------------------------------------------------------------------------
(* Properties *)

StepFired == obs.fired # <<>>

\* C1: once stop() has returned, currentStep is 0 and the step subscriber is not
\* invoked again until start() is called after it, even if a check was pending
\* when stop() was called.
C1_NoStepAfterStop ==
    [][ /\ (~afterStop /\ afterStop') => (clock'.currentStep = 0 /\ ~clock'.isRunning)
        /\ (afterStop /\ afterStop') => ~StepFired' ]_vars


Due(c) == RatLeq(c.nextStepTime, currentTime)

\* C2 as claimed: after a stall the missed steps are skipped, so a check that fires
\* leaves the deadline in the future and the checks that follow fire no catch-up steps.
C2_MissedStepsSkipped ==
    [][ StepFired' => RatLt(currentTime', clock'.nextStepTime) ]_vars

\* C2 amended: a check fires exactly when the clock is running and the deadline has
\* passed; it fires the one current step, advances currentStep by one and the
\* deadline by one interval, also when the deadline stays in the past: the late
\* steps are then fired by the following checks, one per check, none is skipped.
C2_OneStepPerCheck ==
    [][ /\ StepFired' =>
              /\ clock.isRunning /\ Due(clock)
              /\ obs'.fired = <<clock.currentStep>>
              /\ clock'.currentStep = (clock.currentStep + 1) % totalSteps
              /\ clock'.nextStepTime = RatAdd(clock.nextStepTime, clock.stepDuration)
        /\ \A req \in {"tracked", "orphan"} :
              (CheckTiming(req) /\ clock.isRunning /\ Due(clock)) => StepFired' ]_vars

\* a check has just fired step 1 after a stall and the deadline is still more than
\* one interval in the past
C2_Witness ==
    /\ obs.fired = <<1>>
    /\ clock.isRunning
    /\ RatLeq(RatAdd(clock.nextStepTime, clock.stepDuration), currentTime)

-----------------------------------------------------------------------------
(* The connection *)

\* the phase of the session, read off readyState
phase ==
    IF ws.readyState = "OPEN" THEN "Connected"
    ELSE IF ws.readyState = "CONNECTING" THEN "Connecting"
    ELSE "Disconnected"

\* C3: while the session is disconnected a reconnection attempt is scheduled, however
\* many attempts have failed (the session is never shut down here), so that the phase
\* can become Connected once the service is reachable.
C3_KeepsRetrying ==
    ws.readyState = "CLOSED" => ws.reconnectDelay > 0

\* C4: every close arms the reconnect timer with at least the base interval, and
\* with a longer one once an attempt has already failed.
C4_BackoffGrows ==
    [][ (ws.readyState # "CLOSED" /\ ws'.readyState = "CLOSED") =>
            /\ ws'.reconnectDelay >= reconnectInterval
            /\ ws.reconnectCount >= 1 => ws'.reconnectDelay > reconnectInterval ]_vars

\* C5 as claimed: the phase changes only along
\* Disconnected -> Connecting -> Connected -> Disconnected.
C5_PhaseCycle ==
    [][ phase' # phase =>
            <<phase, phase'>> \in { <<"Disconnected", "Connecting">>,
                                    <<"Connecting", "Connected">>,
                                    <<"Connected", "Disconnected">> } ]_vars

\* C5 amended: the phase changes only along Disconnected -> Connecting,
\* Connecting -> Connected, Connected -> Disconnected and, when a connection attempt
\* fails, Connecting -> Disconnected; isConnected holds exactly in phase Connected.
C5_PhaseTransitions ==
    [][ /\ phase' # phase =>
              <<phase, phase'>> \in { <<"Disconnected", "Connecting">>,
                                      <<"Connecting", "Connected">>,
                                      <<"Connected", "Disconnected">>,
                                      <<"Connecting", "Disconnected">> }
        /\ (phase = "Connecting" /\ phase' = "Disconnected") =>
              ws'.lastError = "WebSocket connection error"
        /\ isConnected(ws') <=> phase' = "Connected" ]_vars

\* a reconnection attempt has just failed: the phase went Connecting -> Disconnected
C5_Witness ==
    /\ phase = "Disconnected"
    /\ ws.reconnectCount = 1
    /\ ws.lastError = "WebSocket connection error"

\* the message a command is sent as
messageOf(cmd) ==
    IF cmd.kind = "batch"
    THEN [type |-> "gpio_trigger",
          data |-> [channels |-> cmd.channels, duration |-> cmd.duration]]
    ELSE [type |-> "immediate_trigger",
          data |-> [channel |-> cmd.channel, duration |-> cmd.duration]]

\* C6: a trigger call can be made in every state of the session (a pending
\* reconnection does not block it) and returns at once; it returns true exactly when
\* the session is connected and the whole message was handed to the transport, and
\* otherwise false with nothing transmitted.  (A send leaves readyState as it was.)
C6_FireAndForget ==
    /\ \A cs \in BatchInputs : ENABLED SendBatchTrigger(cs)
    /\ \A c \in KeyChannels : ENABLED SendImmediateTrigger(c)
    /\ (obs.cmds # <<>> /\ obs.fired = <<>>) =>
          /\ obs.ret \in {"true", "false"}
          /\ obs.ret = "true" <=> (isConnected(ws) /\ obs.sent # <<>>)
          /\ obs.ret = "true" => obs.sent = <<messageOf(obs.cmds[1])>>
          /\ obs.ret = "false" => obs.sent = <<>>
          /\ ~isConnected(ws) => obs.ret = "false"

\* the batch {channels: [0,2,5], duration: 50} was issued while disconnected with a
\* reconnection pending
C6_Witness ==
    /\ obs.cmds = <<[kind |-> "batch", channels |-> <<0, 2, 5>>,
                     duration |-> triggerDuration]>>
    /\ obs.ret = "false"
    /\ obs.sent = <<>>
    /\ ws.readyState = "CLOSED"
    /\ ws.reconnectDelay > 0

-----------------------------------------------------------------------------
(* Step handling *)

\* C7: every step event for step s sets currentStep to s and, when
\* getActiveChannels(s) is not empty, dispatches exactly one batch trigger with these
\* channels and the default duration (transmitted as one message when the send is
\* accepted); when it is empty nothing is dispatched.
C7_StepDispatch ==
    [][ StepFired' =>
          LET s == obs'.fired[1]
              active == getActiveChannels(state.grid, s)
              cmd == [kind |-> "batch", channels |-> active, duration |-> triggerDuration]
          IN  /\ Len(obs'.fired) = 1
              /\ state'.currentStep = s
              /\ state'.grid = state.grid
              /\ IF active # <<>>
                 THEN /\ obs'.cmds = <<cmd>>
                      /\ obs'.sent \in { <<>>, <<messageOf(cmd)>> }
                      /\ obs'.ret = "true" <=> obs'.sent # <<>>
                 ELSE /\ obs'.cmds = <<>>
                      /\ obs'.sent = <<>> ]_vars

\* a step event has dispatched one batch for two active channels and it was sent
C7_Witness ==
    /\ StepFired
    /\ state.currentStep = obs.fired[1]
    /\ Len(obs.cmds) = 1
    /\ obs.cmds[1].channels = <<0, 2>>
    /\ obs.ret = "true"

\* C8: with the grid all false, no trigger command is dispatched and no message is
\* sent, whatever play() and stop() calls are made and however much time passes.
C8_NoTriggerOnEmptyGrid ==
    /\ state.grid = initializeGrid
    /\ obs.cmds = <<>>
    /\ obs.sent = <<>>

\* play() then stop() before the first step interval had elapsed, and more than one
\* step interval has passed since
C8_Witness ==
    /\ afterStop
    /\ ~clock.isRunning
    /\ ~state.isPlaying
    /\ clock.audioContext = "running"
    /\ clock.nextStepTime = RatAdd(clock.startTime, clock.stepDuration)
    /\ RatLt(clock.nextStepTime, currentTime)

-----------------------------------------------------------------------------
(* Tempo *)

\* C9: setBpm on a running clock, to a tempo other than the current one, multiplies
\* the time remaining until the deadline by newStepDuration / oldStepDuration; it
\* fires no step, leaves currentStep alone, and a deadline that was pending is still
\* pending (one that was due is still due).
C9_TempoRescale ==
    [][ \A b \in BpmInputs :
          (ClockSetBpm(b) /\ clock.isRunning /\ clampBpm(b) # clock.bpm) =>
             LET old == clock.stepDuration
                 new == calculateStepDuration(clampBpm(b))
             IN  /\ clock'.stepDuration = new
                 /\ RatSub(clock'.nextStepTime, currentTime)
                       = RatMul(RatSub(clock.nextStepTime, currentTime), RatDiv(new, old))
                 /\ clock'.currentStep = clock.currentStep
                 /\ clock'.isRunning
                 /\ ~StepFired'
                 /\ Due(clock') <=> Due(clock) ]_vars

\* started at tempo 120, step 0, at time 0; half an interval later the tempo was set
\* to 200: the 1/16 s that remained became 3/80 s, the deadline 1/10 s
C9_Witness ==
    /\ clock.isRunning
    /\ clock.bpm = maxBpm
    /\ clock.currentStep = 0
    /\ clock.startTime = Zero
    /\ clock.nextStepTime = <<1, 10>>
    /\ clock.stepDuration = <<3, 40>>

\* clock time since the start
elapsed == RatSub(currentTime, clock.startTime)

\* C10 as claimed: when 2.0 s of clock time have passed since the start, exactly 16
\* step events have fired and currentStep is back at 0.
C10_SixteenInTwoSeconds ==
    [][ (clock.isRunning /\ elapsed = <<2, 1>> /\ now' > now) =>
            (watch.stepEvents = 16 /\ clock.currentStep = 0) ]_vars

\* the number of step intervals of 1/8 s that fit into the elapsed time
intervalsElapsed == (elapsed[1] * 8) \div elapsed[2]

\* C10 amended: at tempo 120 the step duration is 0.125 s; the k-th step event fires
\* at the first check at or after k * 0.125 s from the start.  So right after a check
\* the count of events is the number of whole intervals elapsed, between checks it is
\* that number or one less, currentStep is the count modulo 16, at most 15 events
\* have fired before 2.0 s, and the 16th (step 15, currentStep back at 0) has fired
\* once a check has run at or after 2.0 s.
C10_CycleAtTempo120 ==
    clock.isRunning =>
        /\ clock.stepDuration = <<1, 8>>
        /\ watch.stepEvents <= intervalsElapsed
        /\ watch.stepEvents >= intervalsElapsed - 1
        /\ watch.sinceCheck = 0 => watch.stepEvents = intervalsElapsed
        /\ clock.currentStep = watch.stepEvents % totalSteps
        /\ RatLt(elapsed, <<2, 1>>) => watch.stepEvents <= 15
        /\ (RatLeq(<<2, 1>>, elapsed) /\ RatLt(elapsed, <<17, 8>>) /\ watch.sinceCheck = 0)
              => (watch.stepEvents = 16 /\ clock.currentStep = 0)

\* the 16th event (step 15) has just fired, at the first check after 2.0 s
C10_Witness ==
    /\ clock.isRunning
    /\ obs.fired = <<15>>
    /\ watch.stepEvents = 16
    /\ clock.currentStep = 0
    /\ RatLt(<<2, 1>>, elapsed)

-----------------------------------------------------------------------------
(* Tempo and step duration *)

-----------------------------------------------------------------------------
(* play and stop *)

\* the clock and the sequencer have just been started from the beginning
StartedFromBeginning ==
    /\ clock'.isRunning
    /\ clock'.currentStep = 0
    /\ clock'.startTime = currentTime
    /\ clock'.nextStepTime = RatAdd(currentTime, clock'.stepDuration)
    /\ state'.isPlaying
    /\ state'.currentStep = 0
    /\ state'.grid = state.grid
    /\ ~StepFired'

\* C12: play() changes nothing when the sequencer is playing; otherwise, when the
\* clock starts (at once if the audio context is running, else when it has been
\* resumed), the clock runs from step 0 with a full interval ahead, isPlaying is
\* true and currentStep is 0, whatever step the previous run had reached; when the
\* clock does not start, the sequencer stays stopped.
C12_PlayRestarts ==
    [][ /\ Play =>
              IF state.isPlaying
              THEN UNCHANGED <<clock, starts, state, ws>>
              ELSE /\ clock.audioContext = "running" => state'.isPlaying
                   /\ state'.isPlaying => StartedFromBeginning
                   /\ ~state'.isPlaying => (state' = state /\ ~clock'.isRunning)
        /\ ((\E ok \in BOOLEAN : StartResume(ok)) /\ state'.isPlaying)
              => StartedFromBeginning
        /\ state'.isPlaying = clock'.isRunning ]_vars

\* play() has just started the clock from step 0, some time after the page was loaded
C12_Witness ==
    /\ obs.call.op = "play"
    /\ state.isPlaying
    /\ clock.isRunning
    /\ clock.currentStep = 0
    /\ clock.startTime = currentTime
    /\ now >= 2
    /\ ~afterStop

\* C13: stop() changes nothing when the sequencer is not playing; otherwise it stops
\* the clock (not running, no check scheduled under animationFrameId, clock step 0)
\* and sets isPlaying false and currentStep 0; it fires no step and leaves tempo and
\* grid alone.
C13_StopResets ==
    [][ Stop =>
          IF ~state.isPlaying
          THEN UNCHANGED <<clock, starts, state, ws>>
          ELSE /\ ~clock'.isRunning
               /\ clock'.animationFrameId = "null"
               /\ clock'.currentStep = 0
               /\ state' = [state EXCEPT !.isPlaying = FALSE, !.currentStep = 0]
               /\ starts' = <<>>
               /\ ~StepFired' ]_vars

\* stop() has just stopped a run at the default tempo in which a step had fired
C13_Witness ==
    /\ obs.call.op = "stop"
    /\ afterStop
    /\ ~state.isPlaying
    /\ state.currentStep = 0
    /\ clock.currentStep = 0
    /\ clock.bpm = defaultBpm
    /\ RatLt(RatAdd(clock.startTime, clock.stepDuration), clock.nextStepTime)

-----------------------------------------------------------------------------
(* Immediate triggers *)

\* C14: an immediate trigger can be issued in every state, playing or stopped; what
\* it returns and sends depends on the connection alone (connected: true and the one
\* message, or false and an error report when the transport raises; not connected:
\* false and nothing), and it changes neither isPlaying, currentStep, tempo, the grid
\* nor the clock, and fires no step.
C14_ImmediateIndependent ==
    [][ \A c \in KeyChannels :
          /\ ENABLED SendImmediateTrigger(c)
          /\ SendImmediateTrigger(c) =>
                LET cmd == [kind |-> "immediate", channel |-> c,
                            duration |-> triggerDuration]
                IN  /\ UNCHANGED <<state, clock, starts, now>>
                    /\ ~StepFired'
                    /\ obs'.cmds = <<cmd>>
                    /\ IF isConnected(ws)
                       THEN \/ obs'.ret = "true" /\ obs'.sent = <<messageOf(cmd)>>
                                                 /\ obs'.errors = <<>>
                            \/ obs'.ret = "false" /\ obs'.sent = <<>>
                                                  /\ obs'.errors # <<>>
                       ELSE obs'.ret = "false" /\ obs'.sent = <<>> ]_vars

\* key I was pressed in the middle of playback and channel 7 was triggered
C14_Witness ==
    /\ state.isPlaying
    /\ clock.isRunning
    /\ clock.currentStep > 0
    /\ obs.cmds = <<[kind |-> "immediate", channel |-> 7, duration |-> triggerDuration]>>
    /\ obs.ret = "true"
    /\ obs.sent # <<>>

-----------------------------------------------------------------------------
(* The grid *)

\* C15: togglePad applied twice to the same (channel, step) gives back the grid it
\* started from, for every coordinate, in range (where one application flips the
\* pad) or not.
C15_ToggleTwice ==
    \A c \in GridChannels, s \in GridSteps :
        LET once == togglePadGrid(state.grid, c, s)
        IN  /\ togglePadGrid(once, c, s) = state.grid
            /\ (c \in 0..(numChannels - 1) /\ s \in 0..(totalSteps - 1)) =>
                  pad(once, c, s) = ~pad(state.grid, c, s)

\* pad (7, 15) has just been toggled, on a grid with other pads set
C15_Witness ==
    /\ obs.call = [op |-> "togglePad", args |-> <<7, 15>>]
    /\ state.grid[8] = {0}
    /\ state.grid[1] = {8, 15}

\* C16: for every step, getActiveChannels is the sequence of exactly the channels
\* whose pad of that step is on, in strictly ascending order (so without duplicates),
\* and the empty sequence when none is on.
C16_ActiveChannels ==
    \A s \in 0..(totalSteps - 1) :
        LET a  == getActiveChannels(state.grid, s)
            on == { c \in 0..(numChannels - 1) : s \in state.grid[c + 1] }
        IN  /\ { a[i] : i \in 1..Len(a) } = on
            /\ Len(a) = Cardinality(on)
            /\ \A i, j \in 1..Len(a) : i < j => a[i] < a[j]
            /\ on = {} => a = <<>>

\* channels 0 and 7 are on at step 15, none at step 8
C16_Witness ==
    /\ getActiveChannels(state.grid, 15) = <<0, 7>>
    /\ getActiveChannels(state.grid, 8) = <<>>
    /\ state.grid[8] = {0, 15}

\* the channels a trigger command names
channelsOf(cmd) ==
    IF cmd.kind = "batch" THEN { cmd.channels[i] : i \in 1..Len(cmd.channels) }
                          ELSE { cmd.channel }

\* C17: a toggle whose channel or step is out of range, and a trigger naming a channel
\* out of range, is rejected with InvalidIndexError: the grid is unchanged and no
\* message is sent.
C17_InvalidIndexRejected ==
    [][ /\ ( /\ obs'.call.op = "togglePad"
             /\ \/ obs'.call.args[1] \notin 0..(numChannels - 1)
                \/ obs'.call.args[2] \notin 0..(totalSteps - 1) )
            => (obs'.ret = "InvalidIndexError" /\ state'.grid = state.grid)
        /\ ( /\ obs'.cmds # <<>>
             /\ obs'.fired = <<>>
             /\ ~(channelsOf(obs'.cmds[1]) \subseteq 0..(numChannels - 1)) )
            => (obs'.ret = "InvalidIndexError" /\ obs'.sent = <<>>) ]_vars

-----------------------------------------------------------------------------
(* Tempo range *)

\* C18: the tempo of the sequencer state and the tempo of the clock are in [80, 200]
\* in every state; setBpm leaves both at the requested value when it is in the range,
\* else at the nearer limit.
C18_TempoInRange ==
    /\ state.bpm \in minBpm..maxBpm
    /\ clock.bpm \in minBpm..maxBpm
    /\ obs.call.op = "setBpm" =>
          LET b == obs.call.args[1]
          IN  /\ state.bpm = (IF b < minBpm THEN minBpm ELSE IF b > maxBpm THEN maxBpm ELSE b)
              /\ clock.bpm = state.bpm

\* tempo 60 was requested while the clock, started by a direct call, was running
C18_Witness ==
    /\ obs.call = [op |-> "setBpm", args |-> <<60>>]
    /\ state.bpm = minBpm
    /\ clock.bpm = minBpm
    /\ clock.isRunning
    /\ ~state.isPlaying

-----------------------------------------------------------------------------
(* Failures *)

\* C19: a play() that could not start the clock leaves isPlaying false and
\* currentStep as it was, schedules no retry, and reports the failure to its caller
\* (it does not return undefined as a successful play() does).
C19_StartFailureSurfaced ==
    [][ (obs'.call.op = "play" /\ obs'.log # <<>>) =>
            /\ ~state'.isPlaying
            /\ state'.currentStep = state.currentStep
            /\ ~clock'.isRunning
            /\ starts' = starts
            /\ obs'.ret # "none" ]_vars

\* C20: an error message of the back end is passed to the error callback with its
\* text and, when it has one, its channel, and it changes neither the sequencer
\* state nor the clock.
C20_ErrorSurfacedWithChannel ==
    [][ \A m \in Messages :
          (m.type = "error" /\ m.valid /\ WsReceive(m)) =>
              /\ obs'.errors = << <<m.data.error>> \o m.data.channel >>
              /\ UNCHANGED <<state, clock, starts>> ]_vars

\* C21: an inbound message whose type the handler does not recognize is ignored:
\* it changes nothing of the connection, the sequencer or the clock, and no
\* error is reported.
C21_UnknownMessageIgnored ==
    [][ \A m \in Messages :
          (m.type \notin {"connection_status", "error"} /\ WsReceive(m)) =>
              /\ UNCHANGED <<ws, state, clock, starts>>
              /\ obs'.errors = <<>>
              /\ obs'.log = <<>> ]_vars

\* an unrecognized message has been handled during playback on a connection
\* whose status is known
C21_Witness ==
    /\ obs.call = [op |-> "handleMessage", args |-> <<"telemetry">>]
    /\ state.isPlaying
    /\ clock.isRunning
    /\ ws.readyState = "OPEN"
    /\ ws.connectionStatus = "gpio"

\* C22: a dropped or re-established connection is surfaced through the
\* connection status and its callbacks, and never modifies the grid or playback.
C22_ConnectionSurfacedOnly ==
    [][ /\ (WsOpen \/ WsConnectFail \/ WsDrop \/ WsReconnect) =>
               UNCHANGED <<state, clock, starts>>
        /\ WsDrop => /\ ~isConnected(ws')
                     /\ ws'.connectionStatus = "null"
                     /\ obs'.status = <<"onDisconnect">>
        /\ WsOpen => /\ isConnected(ws')
                     /\ obs'.status = <<"onConnect">> ]_vars

\* an open connection has just dropped during playback with pads switched on
C22_Witness ==
    /\ obs.status = <<"onDisconnect">>
    /\ ws.readyState = "CLOSED"
    /\ ws.lastError = "null"
    /\ state.isPlaying
    /\ clock.isRunning
    /\ state.grid[1] # {}

\* C23: no failure halts the timing loop: while the clock is running a timing
\* check is pending after every step of the system, whether a send was rejected,
\* the connection dropped or failed, or an error or malformed message came in;
\* none of these events touches the clock, and a check that finds the deadline
\* elapsed fires its step whatever the state of the connection.
C23_LoopSurvivesFailures ==
    [][ /\ clock'.isRunning =>
              (clock'.animationFrameId = "live" \/ clock'.orphanChecks > 0)
        /\ ( \/ WsDrop \/ WsConnectFail \/ WsReconnect
             \/ \E m \in Messages : WsReceive(m) ) => clock' = clock
        /\ \A req \in {"tracked", "orphan"} :
              (CheckTiming(req) /\ clock.isRunning /\ Due(clock)) =>
                  /\ StepFired'
                  /\ clock'.isRunning
                  /\ clock'.animationFrameId = "live" ]_vars

\* the batch trigger of step 0 has just been rejected on a closed connection, and
\* the next check is scheduled
C23_Witness ==
    /\ StepFired
    /\ obs.cmds # <<>>
    /\ obs.ret = "false"
    /\ ws.readyState = "CLOSED"
    /\ clock.isRunning
    /\ clock.animationFrameId = "live"
    /\ clock.currentStep = 1

\* C24: a timing check of the running clock that finds the deadline elapsed hands
\* exactly one step to the subscriber, the index currentStep had before the check,
\* and then currentStep is that index plus one modulo 16; any other check hands
\* over nothing and changes neither currentStep nor the deadline.
C24_CheckFiresCurrentStep ==
    [][ \A req \in {"tracked", "orphan"} :
          CheckTiming(req) =>
              IF clock.isRunning /\ Due(clock)
              THEN /\ Len(obs'.fired) = 1
                   /\ obs'.fired[1] = clock.currentStep
                   /\ state'.currentStep = clock.currentStep
                   /\ clock'.currentStep = (clock.currentStep + 1) % totalSteps
              ELSE /\ obs'.fired = <<>>
                   /\ clock'.currentStep = clock.currentStep
                   /\ clock'.nextStepTime = clock.nextStepTime
                   /\ state'.currentStep = state.currentStep ]_vars

\* a check has just fired the last step, 15, and wrapped currentStep to 0
C24_Witness ==
    /\ obs.fired = <<totalSteps - 1>>
    /\ state.currentStep = totalSteps - 1
    /\ clock.currentStep = 0
    /\ clock.isRunning

\* C25: with the tempo unchanged since the start, the deadline armed after k - 1
\* step events, the one of the k-th, is startTime + k * stepDuration, whenever
\* the checks ran.
C25_DeadlineAdditive ==
    clock.isRunning =>
        clock.nextStepTime =
            RatAdd(clock.startTime, RatMul(Rat(watch.stepEvents + 1, 1), clock.stepDuration))

\* three steps have fired, the last from a check that ran more than one interval
\* late, at a time that is no multiple of the step interval
C25_Witness ==
    /\ clock.isRunning
    /\ StepFired
    /\ watch.stepEvents = 3
    /\ clock.bpm = maxBpm
    /\ RatLt(RatAdd(clock.nextStepTime, clock.stepDuration), currentTime)

(* start and stop of the clock *)

\* what a successful start(b, s) leaves behind
StartedAs(b, s) ==
    /\ clock'.isRunning
    /\ clock'.currentStep = s
    /\ clock'.bpm = clampBpm(b)
    /\ clock'.stepDuration = RatDiv(Rat(60, clampBpm(b)), Rat(4, 1))
    /\ clock'.startTime = currentTime
    /\ clock'.nextStepTime = RatAdd(currentTime, clock'.stepDuration)
    /\ clock'.animationFrameId = "live"
    /\ ~StepFired'

\* C26: a start(tempo, startStep) of the stopped clock that returns true, at once
\* or after the audio context has been resumed, leaves the clock running with
\* currentStep = startStep, stepDuration = (60 / clamped tempo) / 4 and the deadline
\* one stepDuration after the current time; no step fires before a full interval
\* has passed since the start.
C26_StartArmsFullInterval ==
    [][ /\ \A i \in StartInputs :
              (Start(i[1], i[2]) /\ ~clock.isRunning /\ obs'.ret = "true")
                  => StartedAs(i[1], i[2])
        /\ ((\E ok \in BOOLEAN : StartResume(ok)) /\ obs'.ret = "true")
              => StartedAs(starts[Len(starts)].bpm, starts[Len(starts)].startStep)
        /\ StepFired' =>
              RatLeq(RatAdd(clock.startTime, clock.stepDuration), currentTime) ]_vars

\* start(240, 15) has just returned true on the stopped clock, some time after
\* the page was loaded
C26_Witness ==
    /\ obs.ret = "true"
    /\ clock.isRunning
    /\ clock.currentStep = totalSteps - 1
    /\ clock.bpm = maxBpm
    /\ clock.startTime = currentTime
    /\ clock.nextStepTime = RatAdd(currentTime, Rat(60, 4 * maxBpm))
    /\ watch.stepEvents = 0
    /\ now > 2

\* C27: when the audio context cannot be created or resumed, start() returns false
\* and the clock is as stopped as it was: isRunning is false, no check is
\* scheduled, nothing of the clock but the audio context has changed and no step
\* fires, then or later, while the clock is not running.
C27_FailedStartStaysStopped ==
    [][ /\ ( /\ \/ \E i \in StartInputs : Start(i[1], i[2])
                \/ \E ok \in BOOLEAN : StartResume(ok)
             /\ obs'.ret = "false" ) =>
                 /\ ~clock.isRunning
                 /\ ~clock'.isRunning
                 /\ clock'.animationFrameId # "live"
                 /\ clock'.orphanChecks = 0
                 /\ clock' = [clock EXCEPT !.audioContext = clock'.audioContext]
                 /\ clock'.audioContext # "running"
                 /\ ~StepFired'
        /\ StepFired' => clock.isRunning ]_vars

\* the start() calls suspended on audioContext.resume() have just returned false,
\* some time after the page was loaded
C27_Witness ==
    /\ obs.ret = "false"
    /\ ~clock.isRunning
    /\ clock.audioContext = "suspended"
    /\ starts = <<>>
    /\ now > 0

\* C28: stop() is idempotent: after a call the clock is not running, no check is
\* pending and currentStep is 0, and a second call changes nothing, whether the
\* clock was running or stopped before.
C28_StopIdempotent ==
    [][ ClockStop =>
          /\ ~clock'.isRunning
          /\ clock'.animationFrameId # "live"
          /\ clock'.orphanChecks = 0
          /\ clock'.currentStep = 0
          /\ clockStop(clock') = clock' ]_vars

\* C29: togglePad(channel, step) with indexes in range flips the addressed pad and
\* no other; the grid keeps its 8 channels of 16 steps, and isPlaying, currentStep,
\* the tempo and the clock are unchanged.
C29_ToggleFlipsOnlyItsPad ==
    [][ \A ch \in PadChannels, st \in PadSteps :
          (TogglePad(ch, st) /\ ch \in 0..(numChannels - 1)
                            /\ st \in 0..(totalSteps - 1)) =>
              /\ \A c \in 0..(numChannels - 1), s \in 0..(totalSteps - 1) :
                    pad(state'.grid, c, s) =
                        IF c = ch /\ s = st THEN ~pad(state.grid, c, s)
                                            ELSE pad(state.grid, c, s)
              /\ DOMAIN state'.grid = 1..numChannels
              /\ \A i \in 1..numChannels : state'.grid[i] \subseteq 0..(totalSteps - 1)
              /\ state'.isPlaying = state.isPlaying
              /\ state'.currentStep = state.currentStep
              /\ state'.bpm = state.bpm
              /\ UNCHANGED <<clock, starts>>
              /\ ~StepFired' ]_vars

\* pad (2, 0) has just been switched off during playback, after step 0 was
\* played, with pad (0, 0) on
C29_Witness ==
    /\ obs.call = [op |-> "togglePad", args |-> <<2, 0>>]
    /\ state.isPlaying
    /\ state.currentStep > 0
    /\ state.grid[3] = {}
    /\ state.grid[1] = {0}
    /\ ws.lastError = "null"
    /\ ws.readyState = "OPEN"

\* C30 as claimed: currentStep of the clock and of SequenceState is in 0..15 in
\* every state, and it is 0 right after every change of the running flag, from
\* false to true and from true to false.
C30_StepZeroOnTransition ==
    [][ /\ clock'.currentStep \in 0..(totalSteps - 1)
        /\ state'.currentStep \in 0..(totalSteps - 1)
        /\ clock.isRunning # clock'.isRunning => clock'.currentStep = 0
        /\ state.isPlaying # state'.isPlaying => state'.currentStep = 0 ]_vars

\* C30 amended: with startStep in 0..15, currentStep of the clock and of
\* SequenceState is in 0..15 in every state; SequenceState's is 0 right after
\* every change of isPlaying; the clock's is 0 right after isRunning changes from
\* true to false and is startStep right after it changes from false to true.
C30_StepAfterTransition ==
    [][ /\ clock.currentStep \in 0..(totalSteps - 1)
        /\ state.currentStep \in 0..(totalSteps - 1)
        /\ clock'.currentStep \in 0..(totalSteps - 1)
        /\ state'.currentStep \in 0..(totalSteps - 1)
        /\ state.isPlaying # state'.isPlaying => state'.currentStep = 0
        /\ (clock.isRunning /\ ~clock'.isRunning) => clock'.currentStep = 0
        /\ \A i \in StartInputs :
              (Started /\ Start(i[1], i[2])) => clock'.currentStep = i[2]
        /\ (Started /\ Play) => clock'.currentStep = 0
        /\ (Started /\ \E ok \in BOOLEAN : StartResume(ok)) =>
              clock'.currentStep = starts[Len(starts)].startStep ]_vars

\* start(240, 15) has just started the clock at step 15, after a run that was
\* stopped when step 1 had been played
C30_Witness ==
    /\ obs.ret = "true"
    /\ clock.isRunning
    /\ clock.currentStep = totalSteps - 1
    /\ clock.startTime = currentTime
    /\ clock.nextStepTime = RatAdd(currentTime, clock.stepDuration)
    /\ state.currentStep = 1
    /\ ~state.isPlaying

(* Invariants of the clock and the sequencer *)

\* C31 as claimed: in every state of the clock, running or stopped, stepDuration
\* is (60 / tempo) / 4 for the clock's tempo, and greater than 0.
C31_StepDurationAlways ==
    /\ clock.stepDuration = RatDiv(Rat(60, clock.bpm), Rat(4, 1))
    /\ RatLt(Zero, clock.stepDuration)

\* C31 amended: in every state in which the clock is running, stepDuration is
\* (60 / tempo) / 4 for the clock's tempo, and greater than 0: it is computed by
\* every start and recomputed by every tempo change of the running clock.
C31_StepDurationWhileRunning ==
    clock.isRunning =>
        /\ clock.stepDuration = RatDiv(Rat(60, clock.bpm), Rat(4, 1))
        /\ RatLt(Zero, clock.stepDuration)

\* the tempo of the running clock has been set to 80 (no start leaves that tempo)
C31_Witness ==
    /\ clock.isRunning
    /\ clock.bpm = minBpm
    /\ clock.stepDuration = <<3, 16>>
    /\ RatLt(clock.startTime, currentTime)

\* C32: every trigger command that step playback or the input layer hands to the
\* connection is well-formed: a batch command names at least one channel, its
\* channels are in 0..7 and strictly ascending, an immediate command names one
\* channel in 0..7, and the duration is greater than 0; what is sent is that command.
C32_CommandsWellFormed ==
    /\ \A k \in 1..Len(obs.cmds) :
          LET cmd == obs.cmds[k]
          IN  /\ cmd.duration > 0
              /\ IF cmd.kind = "batch"
                 THEN /\ Len(cmd.channels) > 0
                      /\ \A i \in 1..Len(cmd.channels) :
                            cmd.channels[i] \in 0..(numChannels - 1)
                      /\ \A i, j \in 1..Len(cmd.channels) :
                            i < j => cmd.channels[i] < cmd.channels[j]
                 ELSE cmd.channel \in 0..(numChannels - 1)
    /\ \A k \in 1..Len(obs.sent) :
          k <= Len(obs.cmds) /\ obs.sent[k] = messageOf(obs.cmds[k])

\* step 0 has just been played with the pads of channels 0 and 2 on, and its
\* batch command was sent
C32_Witness ==
    /\ obs.fired = <<0>>
    /\ Len(obs.cmds) = 1
    /\ obs.cmds[1] = [kind |-> "batch", channels |-> <<0, 2>>, duration |-> triggerDuration]
    /\ Len(obs.sent) = 1
    /\ state.isPlaying

(* Overlapping operations of the clock *)

\* the animation-frame requests that have not run and were not cancelled
pendingChecks ==
    (IF clock.animationFrameId = "live" THEN 1 ELSE 0) + clock.orphanChecks

\* C33: under every interleaving of start, stop and checks, also with start()
\* calls that overlap at the await of initialize(), at most one timing check is
\* pending in every state (so none that survived a stop() is pending beside the
\* check of a later start()), and none is pending while the clock is stopped
\* with no start() in progress.
C33_OneTimingLoop ==
    /\ pendingChecks <= 1
    /\ (~clock.isRunning /\ starts = <<>>) => clock.orphanChecks = 0

\* C34: a stop() or destroy() called while a start() is suspended at the await of
\* initialize() prevails: when that start() completes the clock is not running,
\* and no step fires until start() is called again.
C34_StopPrevails ==
    [][ /\ ((\E ok \in BOOLEAN : StartResume(ok)) /\ afterStop) => ~clock'.isRunning
        /\ (afterStop /\ afterStop') => ~StepFired' ]_vars

C36_TempoInSync ==
    state.isPlaying =>
        /\ clock.bpm = state.bpm
        /\ clock.stepDuration = RatDiv(Rat(60, state.bpm), Rat(4, 1))

\* C37: whenever no play() is suspended at the start of the clock, isPlaying of
\* SequenceState equals isRunning of the clock, after every sequence of play, stop
\* (togglePlayback is the one or the other) and step events.
C37_RunningFlagsAgree ==
    starts = <<>> => state.isPlaying = clock.isRunning

\* playback started some time after the page was loaded, no play() is suspended,
\* and step 0 has just been played
C37_Witness ==
    /\ starts = <<>>
    /\ state.isPlaying
    /\ clock.isRunning
    /\ obs.fired = <<0>>
    /\ RatLt(Zero, clock.startTime)

\* C38: start() on a clock that is running returns true and changes nothing:
\* currentStep, tempo, stepDuration, the deadline and the scheduled checks are as
\* before, whatever tempo and startStep were passed, and no step fires.
C38_StartWhileRunning ==
    [][ \A i \in StartInputs :
          (clock.isRunning /\ Start(i[1], i[2])) =>
              /\ obs'.ret = "true"
              /\ clock' = clock
              /\ starts' = starts
              /\ ~StepFired' ]_vars

\* start() has just returned true on the clock that was started earlier at tempo
\* 120 and has played step 0: start time, tempo and step are those of that run
C38_Witness ==
    /\ obs.ret = "true"
    /\ clock.isRunning
    /\ RatLt(clock.startTime, currentTime)
    /\ clock.bpm = defaultBpm
    /\ clock.currentStep = 1

\* C39: play, stop, setBpm, the completion of a play and step events (and the
\* passing of time) leave the grid as it is: the grid changes only in togglePad,
\* clearChannel and clearGrid, and it always has 8 channels of 16 steps.
C39_GridChangesOnlyByEdits ==
    [][ /\ state'.grid # state.grid =>
              obs'.call.op \in {"togglePad", "clearChannel", "clearGrid"}
        /\ ( \/ Play \/ Stop \/ Tick(MaxTime)
             \/ \E b \in AppBpmInputs : SetBpm(b)
             \/ \E ok \in BOOLEAN : StartResume(ok)
             \/ \E req \in {"tracked", "orphan"} : CheckTiming(req) )
              => state'.grid = state.grid
        /\ DOMAIN state'.grid = 1..numChannels
        /\ \A i \in 1..numChannels : state'.grid[i] \subseteq 0..(totalSteps - 1) ]_vars

\* step 0 has just been played at tempo 200 with the pad of channel 0 on, and
\* the pad is still on
C39_Witness ==
    /\ obs.fired = <<0>>
    /\ obs.cmds # <<>>
    /\ state.grid[1] = {0}
    /\ state.grid[3] = {}
    /\ state.isPlaying
    /\ state.bpm = maxBpm

(* The status of the actuator *)

\* C40: connectionStatus is known only while the session is connected: in every
\* state a connectionStatus other than null implies readyState OPEN; every close
\* clears it; a (re)connection leaves it null, and it becomes known only when a
\* connection_status message is handled.
C40_StatusOnlyWhileConnected ==
    [][ /\ ws'.connectionStatus # "null" => ws'.readyState = "OPEN"
        /\ (WsDrop \/ WsConnectFail) => ws'.connectionStatus = "null"
        /\ (WsReconnect \/ WsOpen) => ws'.connectionStatus = "null"
        /\ (ws'.connectionStatus # ws.connectionStatus /\ ws'.connectionStatus # "null")
              => obs'.call = [op |-> "handleMessage", args |-> <<"connection_status">>] ]_vars

\* a session that was open (it has handled an error message) has dropped and is
\* being reconnected: the status is not known
C40_Witness ==
    /\ ws.readyState = "CONNECTING"
    /\ ws.reconnectCount = 1
    /\ ws.lastError = "GPIO unavailable"
    /\ ws.connectionStatus = "null"

=============================================================================
